---- MODULE Spec2Model ----
(***************************************************************************)
(* Model of the price-aggregation backend: GET /prices/:id runs the        *)
(* middleware chain getCID -> getStoreLinks -> route handler.  The route   *)
(* handler dispatches one handler per VENDOR_CONFIG entry, awaits          *)
(* Promise.allSettled and sends one JSON array.                            *)
(*                                                                         *)
(* JavaScript strings that the code concatenates (messages, URLs) are      *)
(* sequences of tokens, so that `a + b` is a \o b.  Null stands for both   *)
(* JavaScript null and undefined in positions the code only tests for      *)
(* truthiness.                                                             *)
(***************************************************************************)
EXTENDS Integers, Sequences, FiniteSets, TLC

VARIABLES
    id,         \* req.params.id, a sequence of characters
    cache,      \* purePEGCache, loaded once at startup
    pc,         \* where the request is in the middleware chain
    cid,        \* req.cid
    vendors,    \* req.vendors
    nameReply,  \* what the name lookup answered (history, "none" before)
    smilesReply,\* what the structure lookup answered (history)
    dirReply,   \* what the source-listing lookup answered (history)
    calls,      \* number of external calls issued, per collaborator
    nextCalls,  \* number of next() calls, per middleware
    responses,  \* responses sent on res, in order
    sent,       \* number of responses sent, per sender (history)
    task,       \* per registry index: position of the vendor handler
    browser,    \* per registry index: the session executeCrawl launched
    results,    \* per registry index: the settled outcome of the handler promise
    reqs        \* the req objects of requests in flight at the same time

vars == <<id, cache, pc, cid, vendors, nameReply, smilesReply, dirReply,
          calls, nextCalls, responses, sent, task, browser, results, reqs>>

-----------------------------------------------------------------------------
(* Bounds of the model *)

\* longest candidate list a lookup returns
MaxCands == 2
\* most rows a scraped page / most variations a commerce-API reply holds
MaxRows == 2

-----------------------------------------------------------------------------
(* Values *)

Null == << "null" >>

Str(s) == << s >>

RECURSIVE SeqsUpTo(_, _)
SeqsUpTo(S, n) ==
    IF n = 0 THEN { <<>> }
    ELSE LET shorter == SeqsUpTo(S, n - 1)
         IN  shorter \cup { Append(s, x) : s \in { t \in shorter : Len(t) = n - 1 }, x \in S }

\* identifiers a client can put in the path segment :id (the route pattern
\* does not match an empty segment, so the empty string never reaches getCID)
Identifiers == { << "a" >>, << " " >>, << "b", " " >> }

\* String.prototype.trim() === ""
IsBlank(s) == \A k \in 1..Len(s) : s[k] = " "

\* encodeURIComponent, per character
EncodeChar(c) == IF c = " " THEN << "%", "2", "0" >> ELSE << c >>

RECURSIVE encodeURIComponent(_)
encodeURIComponent(s) ==
    IF s = <<>> THEN <<>> ELSE EncodeChar(Head(s)) \o encodeURIComponent(Tail(s))

-----------------------------------------------------------------------------
(* The registry *)

AABlocksSearchUrl == Str("https://www.aablocks.com/prod/")

VENDOR_CONFIG == <<
    [vendorName |-> "PurePEG",      sourceName |-> "PurePEG",
     type |-> "api",   handler |-> "handlePurePegApi",      crawlFn |-> "none",            searchUrl |-> Null],
    [vendorName |-> "Accela",       sourceName |-> "Accela ChemBio Inc.",
     type |-> "crawl", handler |-> "handleCrawlableVendor", crawlFn |-> "crawlAccela",     searchUrl |-> Null],
    [vendorName |-> "BLD",          sourceName |-> "BLD Pharm",
     type |-> "crawl", handler |-> "handleCrawlableVendor", crawlFn |-> "crawlBLD",        searchUrl |-> Null],
    [vendorName |-> "BroadPharm",   sourceName |-> "BroadPharm",
     type |-> "crawl", handler |-> "handleCrawlableVendor", crawlFn |-> "crawlBroadPharm", searchUrl |-> Null],
    [vendorName |-> "AA Blocks",    sourceName |-> "AA BLOCKS",
     type |-> "link",  handler |-> "handleLinkOnlyVendor",  crawlFn |-> "none",            searchUrl |-> AABlocksSearchUrl],
    [vendorName |-> "AbaChemScene", sourceName |-> "AbaChemScene",
     type |-> "link",  handler |-> "handleLinkOnlyVendor",  crawlFn |-> "none",            searchUrl |-> Null],
    [vendorName |-> "Combi-Blocks", sourceName |-> "Combi-Blocks",
     type |-> "link",  handler |-> "handleLinkOnlyVendor",  crawlFn |-> "none",            searchUrl |-> Null] >>

Slots == 1..Len(VENDOR_CONFIG)

-----------------------------------------------------------------------------
(* The collaborators' possible answers *)

\* an axios rejection: err.response?.data?.Fault?.Code and err.message
Fault(code, msg) == [kind |-> "error", code |-> code, message |-> Str(msg), hasList |-> FALSE, cids |-> <<>>]

\* an axios success: name_response.data.IdentifierList?.CID
CidList(cands) == [kind |-> "ok", code |-> "none", message |-> Null, hasList |-> TRUE, cids |-> cands]
NoIdentifierList == [kind |-> "ok", code |-> "none", message |-> Null, hasList |-> FALSE, cids |-> <<>>]

NoReply == [kind |-> "none", code |-> "none", message |-> Null, hasList |-> FALSE, cids |-> <<>>]

\* candidate lists the upstream may report: 11, 12, ... up to MaxCands of them
CandLists == { [k \in 1..n |-> 10 + k] : n \in 0..MaxCands }

LookupReplies ==
    { CidList(c) : c \in CandLists }
    \cup { NoIdentifierList,
           Fault("PUGREST.NotFound", "Request failed with status code 404"),
           Fault("PUGREST.ServerBusy", "Request failed with status code 500"),
           Fault("none", "Network Error") }

\* one entry of SourceCategories.Categories[0].Sources
Src(name, url) == [SourceName |-> name, SourceRecordURL |-> Str(url)]

\* vendor lists the source directory may report.  The last three are the
\* non-empty ones: the two vendors of the documented example, a list with two
\* crawl vendors, a link vendor and a repeated vendor, and a list of a vendor
\* the registry does not know.
DirectoryLists == {
    <<>>,
    << Src("BLD Pharm", "https://bld/1"), Src("Combi-Blocks", "https://combi/1") >>,
    << Src("Accela ChemBio Inc.", "https://accela/1"), Src("BroadPharm", "https://broad/1"),
       Src("AA BLOCKS", "https://aa/1"), Src("Accela ChemBio Inc.", "https://accela/2") >>,
    << Src("Other Vendor", "https://other/1") >> }

\* The payload of the source-listing reply, by how much of the path
\* data.SourceCategories.Categories[0].Sources it holds.
DirOk(shape, list) == [kind |-> "ok", shape |-> shape, sources |-> list, message |-> Null]
DirError(msg) == [kind |-> "error", shape |-> "none", sources |-> <<>>, message |-> Str(msg)]
NoDirReply == [kind |-> "none", shape |-> "none", sources |-> <<>>, message |-> Null]

DirShapesWithoutList ==
    { "noData", "noSourceCategories", "noCategories", "emptyCategories", "noSources" }

DirectoryReplies ==
    { DirOk("full", l) : l \in DirectoryLists }
    \cup { DirOk(sh, <<>>) : sh \in DirShapesWithoutList }
    \cup { DirError("Request failed with status code 503"), DirError("Network Error") }

\* response.data?.SourceCategories.Categories[0].Sources : the expression
\* either throws a TypeError (a property read on undefined) or yields the
\* list, or undefined (defined = FALSE)
TypeErrorUndefined == Str("Cannot read properties of undefined")

EvalSources(reply) ==
    CASE reply.shape = "noData" ->
            [throws |-> FALSE, defined |-> FALSE, value |-> <<>>, message |-> Null]
      [] reply.shape \in { "noSourceCategories", "noCategories", "emptyCategories" } ->
            [throws |-> TRUE, defined |-> FALSE, value |-> <<>>, message |-> TypeErrorUndefined]
      [] reply.shape = "noSources" ->
            [throws |-> FALSE, defined |-> FALSE, value |-> <<>>, message |-> Null]
      [] OTHER ->
            [throws |-> FALSE, defined |-> TRUE, value |-> reply.sources, message |-> Null]

\* the local catalogue read from ./meta/cache-array.json at startup: it
\* holds one product, or a null element before it
Product == [isNull |-> FALSE, itemName |-> << "a" >>, cas |-> << "1" >>, smiles |-> << "C" >>, productId |-> 7]
NullProduct == [isNull |-> TRUE, itemName |-> <<>>, cas |-> <<>>, smiles |-> <<>>, productId |-> 0]

Caches == { << Product >>, << NullProduct, Product >> }

\* rows of a scraped price table: the text of the quantity and price cells
\* ("" when the cell is missing or blank) and whether the row carries the
\* `size` attribute the BLD page marks its price rows with
RowPool == {
    [quantity |-> "1g", price |-> "$10", size |-> TRUE],
    [quantity |-> "1g", price |-> "$10", size |-> FALSE],
    [quantity |-> "1g", price |-> "",    size |-> TRUE] }

Pages == SeqsUpTo(RowPool, MaxRows)

\* variations the commerce API may return
VariationPool == { [weight |-> "1g", regular_price |-> "10"], [weight |-> "5g", regular_price |-> "40"] }

VariationLists == SeqsUpTo(VariationPool, MaxRows)

\* messages of the errors the collaborators throw
LaunchError     == Str("browserType.launch: Failed to launch")
NewContextError == Str("browser.newContext: Target closed")
NewPageError    == Str("browserContext.newPage: Target closed")
GotoTimeout     == Str("page.goto: Timeout exceeded")
SelectorTimeout == Str("page.waitForSelector: Timeout exceeded")
EvaluateError   == Str("page.evaluate: Execution context was destroyed")
ScreenshotError == Str("page.screenshot: Target closed")
WcError         == Str("Request failed with status code 401")
PopupTimeout    == Str("page.waitForSelector: Timeout 5000ms exceeded")
ClickError      == Str("locator.click: Timeout exceeded")
LoadStateError  == Str("page.waitForLoadState: Target closed")
NullElementError == Str("Cannot read properties of null (reading 'itemName')")

-----------------------------------------------------------------------------
(* Pure parts of the handlers *)

formatResponse(vendorName, status, prices, url, message) ==
    [vendorName |-> vendorName, status |-> status,
     data |-> [prices |-> prices, url |-> url, message |-> message]]

NoItem == formatResponse("", "none", <<>>, Null, Null)

\* a rejection reason: an Error carries a message and no vendorName ("")
Reason(msg) == [vendorName |-> "", message |-> msg]
NoReason == Reason(Null)

NoSrc == [SourceName |-> "", SourceRecordURL |-> Null]

\* availableVendors.find(v => v.SourceName === config.sourceName)
FindVendor(list, sourceName) ==
    LET hits == { k \in 1..Len(list) : list[k].SourceName = sourceName }
    IN  IF hits = {} THEN [found |-> FALSE, v |-> NoSrc]
        ELSE [found |-> TRUE, v |-> list[CHOOSE k \in hits : \A h \in hits : k <= h]]

\* purePEGCache.find(p => p.itemName === t || p.cas === t || p.smiles === t):
\* elements are visited in order, and reading a property of a null element throws
RECURSIVE CacheFind(_, _)
CacheFind(c, t) ==
    IF c = <<>> THEN [throws |-> FALSE, found |-> FALSE, product |-> NullProduct]
    ELSE IF Head(c).isNull THEN [throws |-> TRUE, found |-> FALSE, product |-> NullProduct]
    ELSE IF Head(c).itemName = t \/ Head(c).cas = t \/ Head(c).smiles = t
         THEN [throws |-> FALSE, found |-> TRUE, product |-> Head(c)]
         ELSE CacheFind(Tail(c), t)

\* response.data.map(variation => ({quantity: variation.weight, price: variation.regular_price}))
VariationsToPrices(data) ==
    [k \in 1..Len(data) |-> [quantity |-> data[k].weight, price |-> data[k].regular_price]]

Complete(row) == row.quantity # "" /\ row.price # ""

ToPriceLine(row) == [quantity |-> row.quantity, price |-> row.price]

MapPriceLines(rows) == [k \in 1..Len(rows) |-> ToPriceLine(rows[k])]

\* the page.evaluate callbacks of the three extractors
crawlAccela(rows) == MapPriceLines(SelectSeq(rows, Complete))

HasSize(row) == row.size

crawlBLD(rows) == MapPriceLines(SelectSeq(SelectSeq(rows, HasSize), Complete))

crawlBroadPharm(rows) == MapPriceLines(SelectSeq(rows, Complete))

Extract(crawlFn, rows) ==
    CASE crawlFn = "crawlAccela"     -> crawlAccela(rows)
      [] crawlFn = "crawlBLD"        -> crawlBLD(rows)
      [] crawlFn = "crawlBroadPharm" -> crawlBroadPharm(rows)

\* the search term appended without encodeURIComponent
handleLinkOnlyVendor_rawTerm(config, vendorData, searchTerm) ==
    IF vendorData.found
    THEN formatResponse(config.vendorName, "link_only", <<>>, vendorData.v.SourceRecordURL,
                        Str("Direct link to product page."))
    ELSE IF config.searchUrl # Null
         THEN formatResponse(config.vendorName, "link_only", <<>>,
                             config.searchUrl \o searchTerm,
                             Str("Direct link to product search page."))
         ELSE formatResponse(config.vendorName, "not_found", <<>>, Null,
                             Str("This vendor does not offer the product."))

\* handleLinkOnlyVendor
handleLinkOnlyVendor(config, vendorData, searchTerm) ==
    IF vendorData.found
    THEN formatResponse(config.vendorName, "link_only", <<>>, vendorData.v.SourceRecordURL,
                        Str("Direct link to product page."))
    ELSE IF config.searchUrl # Null
         THEN formatResponse(config.vendorName, "link_only", <<>>,
                             config.searchUrl \o encodeURIComponent(searchTerm),
                             Str("Direct link to product search page."))
         ELSE formatResponse(config.vendorName, "not_found", <<>>, Null,
                             Str("This vendor does not offer the product."))

\* an empty price list reported as a failure
CrawlSuccess_emptyIsError(config, vendorData, prices) ==
    IF Len(prices) = 0
    THEN formatResponse(config.vendorName, "error", prices, vendorData.v.SourceRecordURL,
                        Str("Scraped successfully, but no pricing info found on page."))
    ELSE formatResponse(config.vendorName, "success", prices, vendorData.v.SourceRecordURL, Null)

\* handleCrawlableVendor, after executeCrawl returned `prices`
CrawlSuccess(config, vendorData, prices) ==
    IF Len(prices) = 0
    THEN formatResponse(config.vendorName, "success", prices, vendorData.v.SourceRecordURL,
                        Str("Scraped successfully, but no pricing info found on page."))
    ELSE formatResponse(config.vendorName, "success", prices, vendorData.v.SourceRecordURL, Null)

\* handleCrawlableVendor, after executeCrawl threw an error with message `msg`
CrawlFailure(config, vendorData, msg) ==
    formatResponse(config.vendorName, "error", <<>>, vendorData.v.SourceRecordURL,
                   Str("Scraping failed: ") \o msg)

CrawlNotFound(config) ==
    formatResponse(config.vendorName, "not_found", <<>>, Null,
                   Str("This vendor does not offer the product."))

PurePegNotFound ==
    formatResponse("PurePEG", "not_found", <<>>, Null, Str("Item not found in PurePEG database."))

PurePegSuccess(prices) == formatResponse("PurePEG", "success", prices, Null, Null)

PurePegError ==
    formatResponse("PurePEG", "error", <<>>, Null, Str("Failed to fetch prices from WooCommerce API."))

-----------------------------------------------------------------------------
(* Responses and the middleware decisions *)

\* res.status(status).json({error, details})
ErrorResponse(status, error, details) ==
    [status |-> status, isArray |-> FALSE, error |-> Str(error), details |-> details, data |-> <<>>]

\* res.status(200).json(responseData)
ArrayResponse(data) ==
    [status |-> 200, isArray |-> TRUE, error |-> Null, details |-> Null, data |-> data]

NoResponse == [status |-> 0, isArray |-> FALSE, error |-> Null, details |-> Null, data |-> <<>>]

\* what a middleware does with a reply: call next(), send a response
\* (send.status # 0), or fall through to the structure lookup
Decision(next, send, fallback) == [next |-> next, send |-> send, fallback |-> fallback]

\* cids && cids.length > 0
HasCandidates(reply) == reply.hasList /\ Len(reply.cids) > 0

\* cids[0]; 0 stands for undefined
FirstCandidate(reply) == IF Len(reply.cids) > 0 THEN reply.cids[1] ELSE 0

\* the catch block without the fault-code test: every error of the name
\* lookup falls back to the structure lookup
AfterNameLookup_anyErrorFallsBack(reply) ==
    IF reply.kind = "ok" /\ reply.hasList /\ Len(reply.cids) > 0
    THEN Decision(TRUE, NoResponse, FALSE)
    ELSE Decision(FALSE, NoResponse, TRUE)

\* getCID, first try/catch: the name lookup
AfterNameLookup(reply) ==
    IF reply.kind = "ok"
    THEN IF HasCandidates(reply)
         THEN Decision(TRUE, NoResponse, FALSE)
         ELSE Decision(FALSE, NoResponse, TRUE)
    ELSE IF reply.code # "PUGREST.NotFound"
         THEN Decision(FALSE, ErrorResponse(500, "Failed to get CID by name", reply.message), FALSE)
         ELSE Decision(FALSE, NoResponse, TRUE)

\* next() also called when the structure lookup returned no candidate
AfterSmilesLookup_nextOnEmpty(reply) ==
    IF reply.kind = "ok"
    THEN Decision(TRUE, NoResponse, FALSE)
    ELSE Decision(FALSE, ErrorResponse(500, "Could not get CID for this smiles number", reply.message), FALSE)

\* getCID, second try/catch: the structure lookup
AfterSmilesLookup(reply) ==
    IF reply.kind = "ok"
    THEN IF HasCandidates(reply)
         THEN Decision(TRUE, NoResponse, FALSE)
         ELSE Decision(FALSE, ErrorResponse(404, "No compound found for ID", Null), FALSE)
    ELSE Decision(FALSE, ErrorResponse(500, "Could not get CID for this smiles number", reply.message), FALSE)

\* next() moved out of the if: it is also called after the 404 was sent
AfterSourceListing_nextAlways(reply) ==
    IF reply.kind = "ok"
    THEN LET vs == EvalSources(reply)
         IN  IF vs.throws
             THEN Decision(FALSE, ErrorResponse(500, "Failed to fetch Vendors", vs.message), FALSE)
             ELSE IF vs.defined /\ Len(vs.value) > 0
                  THEN Decision(TRUE, NoResponse, FALSE)
                  ELSE Decision(TRUE, ErrorResponse(404, "Vendors not found for given CAS number", Null), FALSE)
    ELSE Decision(FALSE, ErrorResponse(500, "Failed to fetch Vendors", reply.message), FALSE)

\* getStoreLinks, the try/catch around the source-listing lookup
AfterSourceListing(reply) ==
    IF reply.kind = "ok"
    THEN LET vs == EvalSources(reply)
         IN  IF vs.throws
             THEN Decision(FALSE, ErrorResponse(500, "Failed to fetch Vendors", vs.message), FALSE)
             ELSE IF vs.defined /\ Len(vs.value) > 0
                  THEN Decision(TRUE, NoResponse, FALSE)
                  ELSE Decision(FALSE, ErrorResponse(404, "Vendors not found for given CAS number", Null), FALSE)
    ELSE Decision(FALSE, ErrorResponse(500, "Failed to fetch Vendors", reply.message), FALSE)

-----------------------------------------------------------------------------
(* Handler promises *)

PendingResult == [state |-> "pending", value |-> NoItem, reason |-> NoReason, task |-> 0, rank |-> 0]

\* the outcome of handler promise i, the rank-th promise to settle
FulfilledWith(i, rank, item) ==
    [state |-> "fulfilled", value |-> item, reason |-> NoReason, task |-> i, rank |-> rank]
RejectedWith(i, rank, reason) ==
    [state |-> "rejected", value |-> NoItem, reason |-> reason, task |-> i, rank |-> rank]

Settled(res) == { j \in Slots : res[j].state # "pending" }

NextRank(res) == Cardinality(Settled(res)) + 1

\* outcomes appended as the promises settle
AllSettledStore_byCompletion(res, i, rank, outcome) == [res EXCEPT ![rank] = outcome]

\* Promise.allSettled keeps the outcome of the i-th promise at index i of
\* its result array, whatever the order of settlement
AllSettledStore(res, i, rank, outcome) == [res EXCEPT ![i] = outcome]

\* results.map(result => ...) of the route handler
ToResponseItem(result) ==
    IF result.state = "fulfilled"
    THEN result.value
    ELSE formatResponse(
            IF result.reason.vendorName # "" THEN result.reason.vendorName ELSE "Unknown Vendor",
            "error", <<>>, Null,
            IF result.reason.message # Null /\ result.reason.message # <<>>
            THEN result.reason.message ELSE Str("An internal error occurred."))

IsFulfilled(result) == result.state = "fulfilled"

\* only the fulfilled outcomes are reported
Aggregate_dropRejected(res) ==
    LET kept == SelectSeq([k \in 1..Len(res) |-> res[k]], IsFulfilled)
    IN  [k \in 1..Len(kept) |-> kept[k].value]

Aggregate(res) == [k \in 1..Len(res) |-> ToResponseItem(res[k])]

\* Promise.all in place of Promise.allSettled: one rejection fails the request
RouteResponse_failFast(res) ==
    IF \E k \in 1..Len(res) : res[k].state = "rejected"
    THEN ErrorResponse(500, "Internal Server Error", Null)
    ELSE ArrayResponse(Aggregate(res))

\* const results = await Promise.allSettled(promises); ...; res.status(200).json(responseData)
RouteResponse(res) == ArrayResponse(Aggregate(res))

NoTask == [pc |-> "idle", vendorData |-> [found |-> FALSE, v |-> NoSrc],
           err |-> Null, cause |-> Null, ret |-> <<>>, popup |-> Null]

\* The synchronous part of handler i, up to its first await: the promise is
\* settled at once, or the handler waits on a collaborator.
HandlerStart(i, list, searchTerm, c) ==
    LET config == VENDOR_CONFIG[i]
        vendorData == FindVendor(list, config.sourceName)
        waiting(at) == [kind |-> "pending", item |-> NoItem, reason |-> NoReason,
                        task |-> [NoTask EXCEPT !.pc = at, !.vendorData = vendorData]]
        fulfilled(item) == [kind |-> "fulfilled", item |-> item, reason |-> NoReason,
                            task |-> [NoTask EXCEPT !.pc = "done", !.vendorData = vendorData]]
        rejected(reason) == [kind |-> "rejected", item |-> NoItem, reason |-> reason,
                             task |-> [NoTask EXCEPT !.pc = "done", !.vendorData = vendorData]]
    IN  CASE config.handler = "handlePurePegApi" ->
                LET f == CacheFind(c, searchTerm)
                IN  IF f.throws THEN rejected(Reason(NullElementError))
                    ELSE IF ~f.found THEN fulfilled(PurePegNotFound)
                    ELSE waiting("wc_get")
          [] config.handler = "handleLinkOnlyVendor" ->
                fulfilled(handleLinkOnlyVendor(config, vendorData, searchTerm))
          [] config.handler = "handleCrawlableVendor" ->
                IF ~vendorData.found THEN fulfilled(CrawlNotFound(config))
                ELSE waiting("launch")

Bump(f, i) == [f EXCEPT ![i] = @ + 1]

\* each handler awaited before the next one is called: nothing is started
\* after a handler that has to wait
RECURSIVE DispatchFrom_sequential(_, _, _, _, _)
DispatchFrom_sequential(i, acc, list, searchTerm, c) ==
    IF i > Len(VENDOR_CONFIG) THEN acc
    ELSE LET h == HandlerStart(i, list, searchTerm, c)
             rank == NextRank(acc.results)
             res == CASE h.kind = "pending"   -> acc.results
                      [] h.kind = "fulfilled" -> AllSettledStore(acc.results, i, rank, FulfilledWith(i, rank, h.item))
                      [] h.kind = "rejected"  -> AllSettledStore(acc.results, i, rank, RejectedWith(i, rank, h.reason))
             cl  == [acc.calls EXCEPT
                        !.handler = Bump(@, i),
                        !.wc = IF h.task.pc = "wc_get" THEN @ + 1 ELSE @,
                        !.launch = IF h.task.pc = "launch" THEN Bump(@, i) ELSE @]
             now == [task |-> [acc.task EXCEPT ![i] = h.task], results |-> res, calls |-> cl]
         IN  IF h.kind = "pending" THEN now
             ELSE DispatchFrom_sequential(i + 1, now, list, searchTerm, c)

\* VENDOR_CONFIG.map(config => config.handler({config, vendorData, searchTerm})):
\* the handlers are started in registry order, each running to its first await
RECURSIVE DispatchFrom(_, _, _, _, _)
DispatchFrom(i, acc, list, searchTerm, c) ==
    IF i > Len(VENDOR_CONFIG) THEN acc
    ELSE LET h == HandlerStart(i, list, searchTerm, c)
             rank == NextRank(acc.results)
             res == CASE h.kind = "pending"   -> acc.results
                      [] h.kind = "fulfilled" -> AllSettledStore(acc.results, i, rank, FulfilledWith(i, rank, h.item))
                      [] h.kind = "rejected"  -> AllSettledStore(acc.results, i, rank, RejectedWith(i, rank, h.reason))
             cl  == [acc.calls EXCEPT
                        !.handler = Bump(@, i),
                        !.wc = IF h.task.pc = "wc_get" THEN @ + 1 ELSE @,
                        !.launch = IF h.task.pc = "launch" THEN Bump(@, i) ELSE @]
         IN  DispatchFrom(i + 1,
                          [task |-> [acc.task EXCEPT ![i] = h.task], results |-> res, calls |-> cl],
                          list, searchTerm, c)

-----------------------------------------------------------------------------
(* The request *)

\* requests served by the one process at the same time; each has its own
\* req object, created by the server before getCID runs
Requests == { 1, 2 }

NoUrl == <<>>

NoReq == [pc |-> "getCID", cid |-> 0, url |-> NoUrl, by |-> NoReply, status |-> 0]

NoCalls == [name |-> 0, smiles |-> 0, sources |-> 0, wc |-> 0,
            handler |-> [i \in Slots |-> 0], launch |-> [i \in Slots |-> 0],
            goto |-> [i \in Slots |-> 0]]

Init ==
    /\ id \in Identifiers
    /\ cache \in Caches
    /\ pc = "getCID"
    /\ cid = 0
    /\ vendors = <<>>
    /\ nameReply = NoReply
    /\ smilesReply = NoReply
    /\ dirReply = NoDirReply
    /\ calls = NoCalls
    /\ nextCalls = [getCID |-> 0, getStoreLinks |-> 0]
    /\ responses = <<>>
    /\ sent = [getCID |-> 0, getStoreLinks |-> 0, route |-> 0]
    /\ task = [i \in Slots |-> NoTask]
    /\ browser = [i \in Slots |-> "none"]
    /\ results = [i \in Slots |-> PendingResult]
    /\ reqs = [r \in Requests |-> NoReq]

Send(d, who) ==
    /\ responses' = IF d.send.status # 0 THEN Append(responses, d.send) ELSE responses
    /\ sent' = [sent EXCEPT ![who] = IF d.send.status # 0 THEN @ + 1 ELSE @]

\* getCID up to its first await: the name lookup is issued
GetCIDStart ==
    /\ pc = "getCID"
    /\ calls' = [calls EXCEPT !.name = @ + 1]
    /\ pc' = "name_wait"
    /\ UNCHANGED <<id, cache, cid, vendors, nameReply, smilesReply, dirReply,
                   nextCalls, responses, sent, task, browser, results, reqs>>

\* getCID resumes with the answer of the name lookup.  next() runs
\* getStoreLinks up to its first await, which issues the source listing.
GetCIDNameReturns ==
    /\ pc = "name_wait"
    /\ \E reply \in LookupReplies :
          LET d == AfterNameLookup(reply)
          IN  /\ nameReply' = reply
              /\ cid' = IF d.next THEN FirstCandidate(reply) ELSE cid
              /\ nextCalls' = [nextCalls EXCEPT !.getCID = IF d.next THEN @ + 1 ELSE @]
              /\ Send(d, "getCID")
              /\ calls' = [calls EXCEPT !.sources = IF d.next THEN @ + 1 ELSE @,
                                        !.smiles = IF ~d.next /\ d.fallback THEN @ + 1 ELSE @]
              /\ pc' = IF d.next THEN "sources_wait"
                       ELSE IF d.fallback THEN "smiles_wait" ELSE "done"
    /\ UNCHANGED <<id, cache, vendors, smilesReply, dirReply, task, browser, results, reqs>>

\* getCID resumes with the answer of the structure lookup
GetCIDSmilesReturns ==
    /\ pc = "smiles_wait"
    /\ \E reply \in LookupReplies :
          LET d == AfterSmilesLookup(reply)
          IN  /\ smilesReply' = reply
              /\ cid' = IF d.next THEN FirstCandidate(reply) ELSE cid
              /\ nextCalls' = [nextCalls EXCEPT !.getCID = IF d.next THEN @ + 1 ELSE @]
              /\ Send(d, "getCID")
              /\ calls' = [calls EXCEPT !.sources = IF d.next THEN @ + 1 ELSE @]
              /\ pc' = IF d.next THEN "sources_wait" ELSE "done"
    /\ UNCHANGED <<id, cache, vendors, nameReply, dirReply, task, browser, results, reqs>>

\* getStoreLinks resumes with the answer of the source listing.  next() runs
\* the route handler up to `await Promise.allSettled(promises)`: every
\* vendor handler is started.
GetStoreLinksReturns ==
    /\ pc = "sources_wait"
    /\ \E reply \in DirectoryReplies :
          LET d == AfterSourceListing(reply)
              list == EvalSources(reply).value
              started == DispatchFrom(1, [task |-> task, results |-> results, calls |-> calls],
                                      list, id, cache)
          IN  /\ dirReply' = reply
              /\ Send(d, "getStoreLinks")
              /\ nextCalls' = [nextCalls EXCEPT !.getStoreLinks = IF d.next THEN @ + 1 ELSE @]
              /\ IF d.next
                 THEN /\ vendors' = list
                      /\ task' = started.task
                      /\ results' = started.results
                      /\ calls' = started.calls
                      /\ pc' = "allSettled_wait"
                 ELSE /\ pc' = "done"
                      /\ UNCHANGED <<vendors, task, results, calls>>
    /\ UNCHANGED <<id, cache, cid, nameReply, smilesReply, browser, reqs>>

\* the route handler resumes once every handler promise has settled
Respond ==
    /\ pc = "allSettled_wait"
    /\ Settled(results) = Slots
    /\ Send(Decision(FALSE, RouteResponse(results), FALSE), "route")
    /\ pc' = "done"
    /\ UNCHANGED <<id, cache, cid, vendors, nameReply, smilesReply, dirReply,
                   calls, nextCalls, task, browser, results, reqs>>

-----------------------------------------------------------------------------
(* Vendor tasks *)

At(i, where) == pc = "allSettled_wait" /\ task[i].pc = where

Goes(i, where) == task' = [task EXCEPT ![i].pc = where]

\* handler i returns `item`, having seen its collaborator return `ret` or
\* throw an error with message `err`
Fulfil(i, item, ret, err) ==
    /\ results' = AllSettledStore(results, i, NextRank(results),
                                  FulfilledWith(i, NextRank(results), item))
    /\ task' = [task EXCEPT ![i].pc = "done", ![i].ret = ret, ![i].err = err,
                            ![i].cause = IF @ = Null THEN err ELSE @]

RequestVars == <<id, cache, pc, cid, vendors, nameReply, smilesReply, dirReply,
                 nextCalls, responses, sent, reqs>>

\* handlePurePegApi resumes with the answer of wc_API.get
WcReturns(i) ==
    /\ At(i, "wc_get")
    /\ \/ \E data \in VariationLists :
             Fulfil(i, PurePegSuccess(VariationsToPrices(data)), VariationsToPrices(data), Null)
       \/ Fulfil(i, PurePegError, <<>>, WcError)
    /\ UNCHANGED <<RequestVars, calls, browser>>

\* executeCrawl: chromium.launch.  A failure is caught by handleCrawlableVendor.
Launch(i) ==
    /\ At(i, "launch")
    /\ \/ /\ browser' = [browser EXCEPT ![i] = "open"]
          /\ Goes(i, "newContext")
          /\ UNCHANGED results
       \/ /\ Fulfil(i, CrawlFailure(VENDOR_CONFIG[i], task[i].vendorData, LaunchError), <<>>, LaunchError)
          /\ UNCHANGED browser
    /\ UNCHANGED <<RequestVars, calls>>

\* executeCrawl: browser.newContext, before the try block
NewContext(i) ==
    /\ At(i, "newContext")
    /\ \/ /\ Goes(i, "newPage")
          /\ UNCHANGED results
       \/ Fulfil(i, CrawlFailure(VENDOR_CONFIG[i], task[i].vendorData, NewContextError), <<>>, NewContextError)
    /\ UNCHANGED <<RequestVars, calls, browser>>

\* executeCrawl: context.newPage, before the try block; then page.goto is issued
NewPage(i) ==
    /\ At(i, "newPage")
    /\ \/ /\ Goes(i, "goto")
          /\ calls' = [calls EXCEPT !.goto = Bump(@, i)]
          /\ UNCHANGED results
       \/ /\ Fulfil(i, CrawlFailure(VENDOR_CONFIG[i], task[i].vendorData, NewPageError), <<>>, NewPageError)
          /\ UNCHANGED calls
    /\ UNCHANGED <<RequestVars, browser>>

\* a catch block that navigates again instead of giving up
Throws_retryNavigation(i, msg) ==
    /\ task' = [task EXCEPT ![i].pc = "goto"]
    /\ calls' = [calls EXCEPT !.goto = Bump(@, i)]

\* an error thrown inside the try block of executeCrawl: the catch block
\* starts the screenshot; nothing is attempted again
Throws(i, msg) ==
    /\ task' = [task EXCEPT ![i].pc = "screenshot", ![i].err = msg, ![i].cause = msg]
    /\ UNCHANGED calls

\* page.goto returns or times out; on return the vendor's crawl function starts
Goto(i) ==
    /\ At(i, "goto")
    /\ \/ /\ Goes(i, IF VENDOR_CONFIG[i].crawlFn = "crawlBLD" THEN "popupWait" ELSE "waitSel")
          /\ UNCHANGED calls
       \/ Throws(i, GotoTimeout)
    /\ UNCHANGED <<RequestVars, browser, results>>

\* the popup block without its try/catch: the error reaches executeCrawl
PopupCaught_uncaught(i, msg) ==
    task' = [task EXCEPT ![i].pc = "screenshot", ![i].err = msg, ![i].cause = msg,
                         ![i].popup = msg]

\* crawlBLD, catch block of the popup steps: the error is logged and the
\* crawl function goes on to the price table
PopupCaught(i, msg) == task' = [task EXCEPT ![i].pc = "waitSel", ![i].popup = msg]

\* crawlBLD: waitForSelector('.location_selt'), which times out when the
\* page shows no popup
PopupWait(i) ==
    /\ At(i, "popupWait")
    /\ \/ Goes(i, "popupClick")
       \/ PopupCaught(i, PopupTimeout)
    /\ UNCHANGED <<RequestVars, calls, browser, results>>

\* crawlBLD: usUSDLink.first().click()
PopupClick(i) ==
    /\ At(i, "popupClick")
    /\ \/ Goes(i, "popupLoad")
       \/ PopupCaught(i, ClickError)
    /\ UNCHANGED <<RequestVars, calls, browser, results>>

\* crawlBLD: page.waitForLoadState('domcontentloaded'), the last step of
\* the popup block
PopupLoad(i) ==
    /\ At(i, "popupLoad")
    /\ \/ Goes(i, "waitSel")
       \/ PopupCaught(i, LoadStateError)
    /\ UNCHANGED <<RequestVars, calls, browser, results>>

\* the crawl function's waitForSelector on the price rows
WaitSel(i) ==
    /\ At(i, "waitSel")
    /\ \/ /\ Goes(i, "evaluate")
          /\ UNCHANGED calls
       \/ Throws(i, SelectorTimeout)
    /\ UNCHANGED <<RequestVars, browser, results>>

\* page.evaluate: the rows of the page are extracted and executeCrawl
\* returns them (the finally block starts browser.close)
Evaluate(i) ==
    /\ At(i, "evaluate")
    /\ \/ /\ \E rows \in Pages :
                task' = [task EXCEPT ![i].pc = "close",
                                     ![i].ret = Extract(VENDOR_CONFIG[i].crawlFn, rows)]
          /\ UNCHANGED calls
       \/ Throws(i, EvaluateError)
    /\ UNCHANGED <<RequestVars, browser, results>>

\* catch block of executeCrawl: after `await page.screenshot` the caught
\* error is re-thrown; an error of the screenshot itself leaves the catch
\* block instead.  Either way the finally block starts browser.close.
ScreenshotOutcome(err, failed) == IF failed THEN ScreenshotError ELSE err

Screenshot(i) ==
    /\ At(i, "screenshot")
    /\ \E failed \in BOOLEAN :
          task' = [task EXCEPT ![i].pc = "close",
                               ![i].err = ScreenshotOutcome(task[i].err, failed)]
    /\ UNCHANGED <<RequestVars, calls, browser, results>>

\* finally block of executeCrawl: browser.close, then executeCrawl returns
\* or throws to handleCrawlableVendor, which formats the result
Close(i) ==
    /\ At(i, "close")
    /\ browser' = [browser EXCEPT ![i] = "closed"]
    /\ IF task[i].err = Null
       THEN Fulfil(i, CrawlSuccess(VENDOR_CONFIG[i], task[i].vendorData, task[i].ret), task[i].ret, Null)
       ELSE Fulfil(i, CrawlFailure(VENDOR_CONFIG[i], task[i].vendorData, task[i].err), <<>>, task[i].err)
    /\ UNCHANGED <<RequestVars, calls>>

Next ==
    \/ GetCIDStart
    \/ GetCIDNameReturns
    \/ GetCIDSmilesReturns
    \/ GetStoreLinksReturns
    \/ Respond
    \/ \E i \in Slots : WcReturns(i)
    \/ \E i \in Slots : Launch(i)
    \/ \E i \in Slots : NewContext(i)
    \/ \E i \in Slots : NewPage(i)
    \/ \E i \in Slots : Goto(i)
    \/ \E i \in Slots : PopupWait(i)
    \/ \E i \in Slots : PopupClick(i)
    \/ \E i \in Slots : PopupLoad(i)
    \/ \E i \in Slots : WaitSel(i)
    \/ \E i \in Slots : Evaluate(i)
    \/ \E i \in Slots : Screenshot(i)
    \/ \E i \in Slots : Close(i)

Spec == Init /\ [][Next]_vars

-----------------------------------------------------------------------------
(* Properties *)

ArraySent == \E k \in 1..Len(responses) : responses[k].isArray

\* the request passed the resolution and the directory stage
PassedStages == nextCalls.getStoreLinks > 0

\* C1: once a request has passed the resolution and directory stages, the
\* JSON array it sends has exactly one element per VENDOR_CONFIG entry,
\* whatever the directory returned and however the handlers ended; and the
\* request does send that array.
C1_ArrayLengthIsRegistrySize ==
    /\ \A k \in 1..Len(responses) :
          responses[k].isArray => Len(responses[k].data) = Len(VENDOR_CONFIG)
    /\ (pc = "done" /\ PassedStages) => ArraySent

\* an array was sent for a directory list of another length than the
\* registry, with a rejected handler and a failed crawl among the tasks
C1_Witness ==
    /\ ArraySent
    /\ Len(vendors) # Len(VENDOR_CONFIG)
    /\ \E i \in Slots : results[i].state = "rejected"
    /\ \E i \in Slots : results[i].state = "fulfilled" /\ results[i].value.status = "error"
    /\ \E i \in Slots : results[i].state = "fulfilled" /\ results[i].value.status = "success"

\* C2: the i-th element of the response is the outcome of the handler of
\* the i-th VENDOR_CONFIG entry, whatever the order in which the handler
\* promises settled.
C2_RegistryOrder ==
    \A k \in 1..Len(responses) :
        responses[k].isArray =>
            \A i \in Slots :
                /\ results[i].task = i
                /\ responses[k].data[i] = ToResponseItem(results[i])
                /\ results[i].state = "fulfilled" =>
                        responses[k].data[i].vendorName = VENDOR_CONFIG[i].vendorName

\* a crawl vendor settled after a link vendor declared later, and its
\* scraped result was sent
C2_Witness ==
    /\ ArraySent
    /\ \E i, j \in Slots :
          /\ i < j
          /\ VENDOR_CONFIG[i].type = "crawl" /\ VENDOR_CONFIG[j].type = "link"
          /\ results[i].rank > results[j].rank
          /\ results[i].value.status = "success"
          /\ Len(results[i].value.data.prices) > 0

\* what handler y produces from its own registry entry, the request's
\* inputs and what its own collaborator calls returned (task[y])
OwnOutcome(y) ==
    LET config == VENDOR_CONFIG[y]
        vendorData == FindVendor(vendors, config.sourceName)
        ok(item) == [state |-> "fulfilled", value |-> item, reason |-> NoReason]
    IN  CASE config.type = "api" ->
                LET f == CacheFind(cache, id)
                IN  IF f.throws
                    THEN [state |-> "rejected", value |-> NoItem, reason |-> Reason(NullElementError)]
                    ELSE IF ~f.found THEN ok(PurePegNotFound)
                    ELSE IF task[y].err = Null THEN ok(PurePegSuccess(task[y].ret))
                    ELSE ok(PurePegError)
          [] config.type = "link" -> ok(handleLinkOnlyVendor(config, vendorData, id))
          [] config.type = "crawl" ->
                IF ~vendorData.found THEN ok(CrawlNotFound(config))
                ELSE IF task[y].err = Null THEN ok(CrawlSuccess(config, vendorData, task[y].ret))
                ELSE ok(CrawlFailure(config, vendorData, task[y].err))

\* C3: failure isolation.  The settled outcome of every vendor y is the one
\* its own task produced, whatever the other tasks did; a failing or
\* rejecting task never yields a top-level error: once the stages are passed
\* the only response is HTTP 200 with each vendor's own item.
C3_FailureIsolation ==
    /\ \A y \in Slots :
          results[y].state # "pending" =>
              /\ results[y].state = OwnOutcome(y).state
              /\ results[y].value = OwnOutcome(y).value
              /\ results[y].reason = OwnOutcome(y).reason
    /\ PassedStages =>
          \A k \in 1..Len(responses) :
              /\ responses[k].status = 200
              /\ responses[k].isArray
              /\ Len(responses[k].data) = Len(VENDOR_CONFIG)
              /\ \A y \in Slots : responses[k].data[y] = ToResponseItem(OwnOutcome(y))
    /\ (pc = "done" /\ PassedStages) => ArraySent

\* the response was sent after one crawl failed on a navigation timeout,
\* another crawl succeeded with prices and the api handler rejected
C3_Witness ==
    /\ ArraySent
    /\ \E x, y \in Slots :
          /\ x # y
          /\ task[x].cause = GotoTimeout /\ results[x].value.status = "error"
          /\ results[y].value.status = "success" /\ Len(results[y].value.data.prices) > 0
    /\ \E z \in Slots : results[z].state = "rejected"

InGetCID == pc \in { "getCID", "name_wait", "smiles_wait" }

NoHandlerStarted ==
    /\ \A i \in Slots : calls.handler[i] = 0 /\ results[i].state = "pending"
    /\ calls.wc = 0
    /\ \A i \in Slots : calls.launch[i] = 0

\* C4: a request gets exactly one response: a top-level error object with
\* a 4xx/5xx status sent by the resolver or the directory stage, no vendor
\* handler having run, or HTTP 200 with the full array once every handler
\* has settled.  Each middleware that has finished has either sent an error
\* or called next(), never both and never neither.
C4_ExactlyOneResponse ==
    /\ Len(responses) <= 1
    /\ pc = "done" => Len(responses) = 1
    /\ \A k \in 1..Len(responses) :
          LET r == responses[k]
          IN  \/ /\ r.isArray /\ r.status = 200
                 /\ Len(r.data) = Len(VENDOR_CONFIG)
                 /\ Settled(results) = Slots
                 /\ PassedStages /\ sent.route = 1
              \/ /\ ~r.isArray /\ r.status \in { 404, 500 } /\ r.error # Null
                 /\ ~PassedStages /\ sent.route = 0
                 /\ NoHandlerStarted
    /\ nextCalls.getCID + sent.getCID = (IF InGetCID THEN 0 ELSE 1)
    /\ nextCalls.getStoreLinks + sent.getStoreLinks =
          (IF nextCalls.getCID = 1 /\ pc # "sources_wait" THEN 1 ELSE 0)

\* the request ended on the 404 of getStoreLinks, reached through the
\* structure fallback of getCID
C4_Witness ==
    /\ pc = "done"
    /\ calls.smiles = 1 /\ nextCalls.getCID = 1
    /\ sent.getStoreLinks = 1 /\ nextCalls.getStoreLinks = 0
    /\ Len(responses) = 1 /\ responses[1].status = 404

\* C5: every browser session executeCrawl launched is closed when
\* executeCrawl has returned or thrown.
C5_SessionReleasedOnEveryExit ==
    \A i \in Slots : task[i].pc = "done" => browser[i] # "open"

ThrownInTry == { GotoTimeout, SelectorTimeout, EvaluateError }

\* C6: when the navigation, the readiness wait or the extraction failed,
\* the error executeCrawl throws is that failure, also when the screenshot
\* itself failed.
C6_OriginalErrorPropagates ==
    \A i \in Slots :
        (task[i].pc \in { "close", "done" } /\ task[i].cause \in ThrownInTry) =>
            task[i].err = task[i].cause

\* the lookup reported not-found: an empty or absent candidate list, or the
\* not-found fault code
NotFoundReported(reply) ==
    \/ reply.kind = "ok" /\ ~HasCandidates(reply)
    \/ reply.kind = "error" /\ reply.code = "PUGREST.NotFound"

\* C7: the structure lookup is issued only after the name lookup reported
\* not-found; after a resolving name lookup it is never issued, and after
\* any other failure of the name lookup it is never issued and the request
\* ends at once with the 500 response carrying the upstream message.
C7_FallbackOnlyOnNotFound ==
    /\ calls.smiles > 0 => NotFoundReported(nameReply)
    /\ (nameReply.kind = "ok" /\ HasCandidates(nameReply)) =>
          calls.smiles = 0 /\ smilesReply = NoReply
    /\ (nameReply.kind = "error" /\ nameReply.code # "PUGREST.NotFound") =>
          /\ calls.smiles = 0 /\ smilesReply = NoReply
          /\ calls.sources = 0
          /\ pc = "done"
          /\ responses = << ErrorResponse(500, "Failed to get CID by name", nameReply.message) >>

\* the name lookup answered with an upstream fault other than not-found
C7_Witness ==
    /\ nameReply.kind = "error" /\ nameReply.code = "PUGREST.ServerBusy"
    /\ pc = "done"

\* C8: when the name lookup and the structure lookup both report
\* not-found, in either form, the response is the 404.
C8_BothNotFoundIs404 ==
    (NotFoundReported(nameReply) /\ NotFoundReported(smilesReply)) =>
        Len(responses) = 1 /\ responses[1].status = 404

\* C9: for a blank identifier no external call is ever issued.
C9_BlankRejectedBeforeAnyCall == IsBlank(id) => calls = NoCalls

\* C10: a source listing that succeeded without a vendor list (empty list,
\* or categories/sources absent from the payload) ends in the 404, and only
\* a failed call ends in the 500.
C10_MissingListIs404 ==
    /\ (dirReply.kind = "ok" /\ (dirReply.shape # "full" \/ dirReply.sources = <<>>)) =>
          Len(responses) = 1 /\ responses[1].status = 404
    /\ dirReply.kind = "error" => Len(responses) = 1 /\ responses[1].status = 500

\* C11: a handler promise that rejected is reported, at its own slot, as
\* an error item carrying the registry name of that vendor and the message
\* of the rejection.
C11_RejectionCarriesVendorName ==
    \A k \in 1..Len(responses) :
        responses[k].isArray =>
            \A i \in Slots :
                results[i].state = "rejected" =>
                    /\ results[i].task = i
                    /\ responses[k].data[i].status = "error"
                    /\ responses[k].data[i].data.message = results[i].reason.message
                    /\ responses[k].data[i].vendorName = VENDOR_CONFIG[i].vendorName

\* The steps that are certain to happen once they are possible: the
\* synchronous continuations of the request, and the returns of the calls
\* that carry a timeout (chromium.launch, page.goto, waitForSelector, click,
\* waitForLoadState and page.screenshot return or throw when their timeout,
\* explicit or Playwright's default, expires).  The axios lookups,
\* wc_API.get, browser.newContext, context.newPage, page.evaluate and
\* browser.close are given no timeout: nothing makes them return.
TimedStep ==
    \/ GetCIDStart
    \/ Respond
    \/ \E i \in Slots : Launch(i)
    \/ \E i \in Slots : Goto(i)
    \/ \E i \in Slots : PopupWait(i)
    \/ \E i \in Slots : PopupClick(i)
    \/ \E i \in Slots : PopupLoad(i)
    \/ \E i \in Slots : WaitSel(i)
    \/ \E i \in Slots : Screenshot(i)

FairSpec == Spec /\ WF_vars(TimedStep)

\* C12: every external call is bounded by a timeout of its own, so every
\* request eventually sends its response, also when a collaborator never
\* answers.
C12_EveryRequestAnswered == <>(pc = "done" /\ Len(responses) = 1)

CrawlSlots == { i \in Slots : VENDOR_CONFIG[i].type = "crawl" }

\* the directory list has an entry whose SourceName is the sourceName of slot i
Listed(i) == \E k \in 1..Len(vendors) : vendors[k].SourceName = VENDOR_CONFIG[i].sourceName

\* the URL of the first such entry
ListedUrl(i) ==
    vendors[CHOOSE k \in 1..Len(vendors) :
                /\ vendors[k].SourceName = VENDOR_CONFIG[i].sourceName
                /\ \A h \in 1..(k - 1) : vendors[h].SourceName # VENDOR_CONFIG[i].sourceName].SourceRecordURL

\* C13: a crawl vendor absent from the directory list is reported
\* not_found and no browser is launched for it; a listed one gets one
\* executeCrawl on the directory URL and is reported success exactly when
\* executeCrawl returned (with a message when the prices are empty) and
\* error with a message exactly when it threw.
C13_CrawlHandlerOutcomes ==
    PassedStages =>
        \A i \in CrawlSlots :
            /\ ~Listed(i) =>
                  /\ calls.launch[i] = 0 /\ calls.goto[i] = 0 /\ browser[i] = "none"
                  /\ results[i].state = "fulfilled"
                  /\ results[i].value.status = "not_found"
                  /\ results[i].value.data.prices = <<>>
            /\ Listed(i) =>
                  /\ calls.launch[i] = 1
                  /\ task[i].vendorData.v.SourceRecordURL = ListedUrl(i)
                  /\ results[i].state \in { "pending", "fulfilled" }
                  /\ results[i].state = "pending" <=> task[i].pc # "done"
                  /\ results[i].state = "fulfilled" =>
                        LET item == results[i].value
                        IN  /\ item.vendorName = VENDOR_CONFIG[i].vendorName
                            /\ item.data.url = ListedUrl(i)
                            /\ item.status = "success" <=> task[i].err = Null
                            /\ item.status = "error" <=> task[i].err # Null
                            /\ item.status = "success" =>
                                  /\ item.data.prices = task[i].ret
                                  /\ item.data.prices = <<>> <=> item.data.message # Null
                            /\ item.status = "error" =>
                                  /\ item.data.prices = <<>>
                                  /\ item.data.message = Str("Scraping failed: ") \o task[i].err

\* one request with a crawl that returned no complete row, a crawl that
\* threw and a crawl vendor the directory does not list
C13_Witness ==
    /\ ArraySent
    /\ \E i, j, k \in CrawlSlots :
          /\ results[i].value.status = "success" /\ results[i].value.data.prices = <<>>
          /\ results[j].value.status = "error"
          /\ results[k].value.status = "not_found"

LinkSlots == { i \in Slots : VENDOR_CONFIG[i].type = "link" }

\* the identifier as it appears in a URL: a space is written %20, the
\* other characters of the model's identifiers are kept
UrlEncoded(s) ==
    IF s = << "a" >> THEN << "a" >>
    ELSE IF s = << " " >> THEN << "%", "2", "0" >>
    ELSE IF s = << "b", " " >> THEN << "b", "%", "2", "0" >>
    ELSE << "?" >>

\* C14: a link vendor the directory lists is reported link_only with the
\* directory URL; an unlisted one with a search-URL template is reported
\* link_only with the template followed by the URL-encoded identifier; any
\* other is reported not_found.  The handler settles when it is dispatched
\* and issues no external call.
C14_LinkHandlerOutcomes ==
    PassedStages =>
        \A i \in LinkSlots :
            LET item == results[i].value
            IN  /\ results[i].state = "fulfilled"
                /\ task[i].pc = "done"
                /\ calls.launch[i] = 0 /\ calls.goto[i] = 0 /\ browser[i] = "none"
                /\ item.vendorName = VENDOR_CONFIG[i].vendorName
                /\ item.data.prices = <<>>
                /\ Listed(i) => item.status = "link_only" /\ item.data.url = ListedUrl(i)
                /\ (~Listed(i) /\ VENDOR_CONFIG[i].searchUrl # Null) =>
                      /\ item.status = "link_only"
                      /\ item.data.url = VENDOR_CONFIG[i].searchUrl \o UrlEncoded(id)
                /\ (~Listed(i) /\ VENDOR_CONFIG[i].searchUrl = Null) =>
                      item.status = "not_found" /\ item.data.url = Null

\* the three cases in one request, for an identifier that needs encoding
C14_Witness ==
    /\ PassedStages
    /\ id = << "b", " " >>
    /\ \E i, j, k \in LinkSlots :
          /\ Listed(i) /\ results[i].value.status = "link_only"
          /\ ~Listed(j) /\ results[j].value.data.url = << "https://www.aablocks.com/prod/", "b", "%", "2", "0" >>
          /\ ~Listed(k) /\ results[k].value.status = "not_found"

ApiSlots == { i \in Slots : VENDOR_CONFIG[i].type = "api" }

\* the identifier is the name, registry number or structure string of a
\* catalog entry
MatchesCatalog ==
    \E k \in 1..Len(cache) :
        /\ ~cache[k].isNull
        /\ cache[k].itemName = id \/ cache[k].cas = id \/ cache[k].smiles = id

\* C15: the api vendor's result is not_found, with no commerce-API call,
\* when the identifier matches no catalog entry; otherwise the commerce API
\* is called once and the result is success with the price lines of the
\* returned variations in order, or error when the call failed.  Nothing of
\* the directory list enters the result.
C15_ApiHandlerOutcomes ==
    PassedStages =>
        \A i \in ApiSlots :
            LET item == results[i].value
            IN  /\ ~MatchesCatalog =>
                      /\ calls.wc = 0
                      /\ results[i].state = "fulfilled"
                      /\ item = PurePegNotFound
                /\ MatchesCatalog =>
                      /\ calls.wc = 1
                      /\ results[i].state = "pending" <=> task[i].pc = "wc_get"
                      /\ results[i].state # "pending" =>
                            /\ results[i].state = "fulfilled"
                            /\ item.vendorName = "PurePEG"
                            /\ task[i].err = Null =>
                                  item.status = "success" /\ item.data.prices = task[i].ret
                            /\ task[i].err # Null => item.status = "error"

\* the lookup that made getCID call next()
ResolvedBy ==
    IF nameReply # NoReply /\ AfterNameLookup(nameReply).next THEN nameReply ELSE smilesReply

\* C16: the source listing is requested only once getCID has set a
\* canonical ID; a vendor handler runs (and a commerce-API call or browser
\* launch is made) only once the source listing has returned a non-empty
\* list; a request answered by getCID or getStoreLinks has made no
\* vendor-level call.
C16_StageOrdering ==
    /\ calls.sources > 0 =>
          /\ nextCalls.getCID = 1
          /\ cid # 0
          /\ ResolvedBy.kind = "ok" /\ cid = ResolvedBy.cids[1]
    /\ ~NoHandlerStarted =>
          /\ calls.sources = 1
          /\ nextCalls.getStoreLinks = 1
          /\ dirReply.kind = "ok" /\ dirReply.shape = "full"
          /\ vendors = dirReply.sources /\ Len(vendors) > 0
    /\ sent.getCID + sent.getStoreLinks > 0 =>
          /\ NoHandlerStarted
          /\ \A i \in Slots : calls.goto[i] = 0 /\ browser[i] = "none" /\ task[i] = NoTask

\* both orders happened: a request that resolved through the structure
\* lookup and launched a browser, after one listing request
C16_Witness ==
    /\ smilesReply # NoReply /\ cid # 0 /\ cid = FirstCandidate(smilesReply)
    /\ calls.sources = 1
    /\ calls.wc = 1
    /\ \E i \in Slots : browser[i] = "open"

\* C17: within the request every external operation is attempted at most
\* once: the name lookup, the structure lookup, the source listing, and for
\* every registry entry the handler invocation, the commerce-API call, the
\* browser launch and the navigation; a task that has failed attempts
\* nothing further.
C17_AtMostOneAttempt ==
    /\ calls.name <= 1 /\ calls.smiles <= 1 /\ calls.sources <= 1 /\ calls.wc <= 1
    /\ \A i \in Slots :
          /\ calls.handler[i] <= 1 /\ calls.launch[i] <= 1 /\ calls.goto[i] <= 1
          /\ calls.goto[i] <= calls.launch[i] /\ calls.launch[i] <= calls.handler[i]
          /\ (task[i].err # Null /\ task[i].pc = "done") =>
                ~ENABLED (WcReturns(i) \/ Launch(i) \/ NewContext(i) \/ NewPage(i) \/ Goto(i))

\* every kind of operation was attempted, after failures of the name
\* lookup, of the commerce API and of a navigation
C17_Witness ==
    /\ pc = "done"
    /\ calls.name = 1 /\ calls.smiles = 1 /\ calls.sources = 1 /\ calls.wc = 1
    /\ \E i \in ApiSlots : task[i].err = WcError
    /\ \E i \in CrawlSlots :
          task[i].cause = GotoTimeout /\ calls.launch[i] = 1 /\ calls.goto[i] = 1

-----------------------------------------------------------------------------
(* Concurrent requests: the resolver and the directory stage of several    *)
(* requests, interleaved at their awaits                                   *)

\* what the lookups answer to request r: the candidates differ from one
\* request to the other
LookupRepliesOf(r) ==
    { IF rep.kind = "ok" /\ rep.hasList
      THEN CidList([k \in 1..Len(rep.cids) |-> rep.cids[k] + 10 * (r - 1)])
      ELSE rep : rep \in LookupReplies }

\* the canonical ID kept in one variable of the module, shared by all requests
SetCid_shared(store, r, c) == [q \in DOMAIN store |-> [store[q] EXCEPT !.cid = c]]

\* req.cid = cids[0], on the request's own req object
SetCid(store, r, c) == [store EXCEPT ![r].cid = c]

\* getStoreLinks: const cid = req.cid, then the URL of the source listing
SourcesUrl(store, r) ==
    << "https://pubchem.ncbi.nlm.nih.gov/rest/pug_view/categories/compound/",
       store[r].cid, "/JSON/?heading=Chemical+Vendors" >>

\* getCID of request r calls next(): req.cid is assigned and getStoreLinks
\* runs up to its await, having built its URL
Resolved(r, reply) ==
    LET assigned == SetCid(reqs, r, FirstCandidate(reply))
    IN  [assigned EXCEPT ![r].pc = "sources_wait", ![r].by = reply,
                         ![r].url = SourcesUrl(assigned, r)]

OtherVars == <<id, cache, pc, cid, vendors, nameReply, smilesReply, dirReply,
               calls, nextCalls, responses, sent, task, browser, results>>

ReqStart(r) ==
    /\ reqs[r].pc = "getCID"
    /\ reqs' = [reqs EXCEPT ![r].pc = "name_wait"]
    /\ UNCHANGED OtherVars

ReqNameReturns(r) ==
    /\ reqs[r].pc = "name_wait"
    /\ \E reply \in LookupRepliesOf(r) :
          LET d == AfterNameLookup(reply)
          IN  reqs' = IF d.next THEN Resolved(r, reply)
                      ELSE [reqs EXCEPT ![r].pc = IF d.fallback THEN "smiles_wait" ELSE "done",
                                        ![r].status = d.send.status]
    /\ UNCHANGED OtherVars

ReqSmilesReturns(r) ==
    /\ reqs[r].pc = "smiles_wait"
    /\ \E reply \in LookupRepliesOf(r) :
          LET d == AfterSmilesLookup(reply)
          IN  reqs' = IF d.next THEN Resolved(r, reply)
                      ELSE [reqs EXCEPT ![r].pc = "done", ![r].status = d.send.status]
    /\ UNCHANGED OtherVars

\* getStoreLinks of request r resumes; with a vendor list the request goes
\* on to the route handler
ReqSourcesReturns(r) ==
    /\ reqs[r].pc = "sources_wait"
    /\ \E reply \in DirectoryReplies :
          LET d == AfterSourceListing(reply)
          IN  reqs' = [reqs EXCEPT ![r].pc = IF d.next THEN "route" ELSE "done",
                                   ![r].status = d.send.status]
    /\ UNCHANGED OtherVars

ConcInit == Init /\ id = << "a" >> /\ cache = << Product >>

ConcNext ==
    \/ \E r \in Requests : ReqStart(r)
    \/ \E r \in Requests : ReqNameReturns(r)
    \/ \E r \in Requests : ReqSmilesReturns(r)
    \/ \E r \in Requests : ReqSourcesReturns(r)

ConcSpec == ConcInit /\ [][ConcNext]_vars

\* the candidates the lookups report for request r
CandidatesOf(r) == { 10 * r + k : k \in 1..MaxCands }

CidNeverChanges ==
    \A r \in Requests : reqs[r].cid # 0 => reqs'[r].cid = reqs[r].cid

OwnCid ==
    \A r \in Requests :
        /\ reqs[r].cid # 0 =>
              /\ reqs[r].by.kind = "ok"
              /\ reqs[r].cid = reqs[r].by.cids[1]
              /\ reqs[r].cid \in CandidatesOf(r)
        /\ reqs[r].pc \in { "sources_wait", "route" } \/ reqs[r].url # NoUrl =>
              /\ reqs[r].cid # 0
              /\ reqs[r].url[2] = reqs[r].cid

\* C18: req.cid of a request is assigned once, to the first candidate of
\* the lookup that succeeded for that request, and keeps that value; the
\* source listing of a request is asked for the canonical ID of that same
\* request, however the requests interleave.
C18_CidAssignedOncePerRequest == []OwnCid /\ [][CidNeverChanges]_vars

\* both requests wait for their source listing at the same time, each
\* with the first candidate of its own lookup
C18_Witness ==
    /\ reqs[1].pc = "sources_wait" /\ reqs[2].pc = "sources_wait"
    /\ reqs[1].by.code = "none" /\ Len(reqs[1].by.cids) = 2
    /\ reqs[1].cid = 11 /\ reqs[2].cid = 21
    /\ reqs[1].url # reqs[2].url

\* the next step of vendor task y, whatever it is
TaskStep(y) ==
    \/ WcReturns(y) \/ Launch(y) \/ NewContext(y) \/ NewPage(y) \/ Goto(y)
    \/ PopupWait(y) \/ PopupClick(y) \/ PopupLoad(y) \/ WaitSel(y)
    \/ Evaluate(y) \/ Screenshot(y) \/ Close(y)

InCrawl(i) ==
    task[i].pc \in { "newContext", "newPage", "goto", "popupWait", "popupClick",
                     "popupLoad", "waitSel", "evaluate", "screenshot", "close" }

AllDispatched ==
    PassedStages =>
        \A i \in Slots :
            /\ calls.handler[i] = 1
            /\ task[i].pc # "idle"
            /\ task[i].pc # "done" => ENABLED TaskStep(i)

OwnSession ==
    \A i \in Slots :
        /\ browser[i] # "none" => VENDOR_CONFIG[i].type = "crawl" /\ calls.launch[i] = 1
        /\ InCrawl(i) => browser[i] = "open"
        /\ browser[i] = "closed" => task[i].pc = "done"

\* a session changes only in a step of the task it belongs to
SessionTouchedByOwner ==
    \A i \in Slots :
        browser'[i] # browser[i] =>
            /\ task[i].pc \in { "launch", "close" }
            /\ task'[i] # task[i]
            /\ \A j \in Slots \ { i } : task'[j] = task[j] /\ browser'[j] = browser[j]

\* C19: every registry entry's handler is called before the route handler
\* awaits any, so a task that has not finished can always take its next step
\* whatever the other tasks are waiting for; a crawl task's browser session
\* is opened and closed by that task alone and stays open while it crawls.
C19_TasksRunConcurrently == []AllDispatched /\ []OwnSession /\ [][SessionTouchedByOwner]_vars

\* a crawl task still waits for its navigation while a later one has
\* finished and closed its own session
C19_Witness ==
    \E i, j \in CrawlSlots :
        /\ i < j
        /\ task[i].pc = "goto" /\ browser[i] = "open"
        /\ task[j].pc = "done" /\ browser[j] = "closed"
        /\ results[i].state = "pending" /\ results[j].value.status = "success"

PopupErrors == { PopupTimeout, ClickError, LoadStateError }

\* C20: in crawlBLD a popup that does not appear, or whose dismissal fails,
\* is not an error: the crawl goes on to the wait for the price rows and to
\* the extraction, and what the vendor reports is decided by those steps
\* alone.
C20_PopupIsOptional ==
    \A i \in Slots :
        /\ VENDOR_CONFIG[i].crawlFn # "crawlBLD" => task[i].popup = Null
        /\ task[i].popup \in PopupErrors =>
              /\ task[i].pc \in { "waitSel", "evaluate", "screenshot", "close", "done" }
              /\ task[i].cause \in { Null, SelectorTimeout, EvaluateError }
              /\ task[i].err \in { Null, SelectorTimeout, EvaluateError, ScreenshotError }
              /\ task[i].pc = "waitSel" => task[i].err = Null
              /\ task[i].pc = "done" =>
                    /\ results[i].state = "fulfilled"
                    /\ task[i].err = Null =>
                          /\ results[i].value.status = "success"
                          /\ results[i].value.data.prices = task[i].ret
                    /\ task[i].err # Null =>
                          /\ results[i].value.status = "error"
                          /\ results[i].value.data.message = Str("Scraping failed: ") \o task[i].err

\* the popup never appeared and the prices were read from the table
C20_Witness ==
    \E i \in Slots :
        /\ VENDOR_CONFIG[i].crawlFn = "crawlBLD"
        /\ task[i].popup = PopupTimeout
        /\ task[i].pc = "done"
        /\ results[i].value.status = "success"
        /\ Len(results[i].value.data.prices) > 0

\* every handler promise has settled and no vendor task has a step left
AllTasksOver ==
    /\ Settled(results) = Slots
    /\ \A i \in Slots : task[i].pc = "done" /\ ~ENABLED TaskStep(i)

\* C21: once the HTTP 200 array has been sent, every vendor task of the
\* request has settled and none is still running, and no browser session
\* launched for the request is still open.
C21_ResponseAfterAllTasks ==
    ArraySent =>
        /\ AllTasksOver
        /\ \A i \in Slots : browser[i] # "open"

====
